---- MODULE Spec2Model ----
(***************************************************************************)
(* AutoCustomLyX: the three deployment scripts.                            *)
(*   Script.py  : sync_configuration (git clone / pull with backup)        *)
(*   test.py    : get_lyx_user_directory, download_file, four-asset run    *)
(*   install.py : download_github_file, the preferences / bind append      *)
(* Each script is a sequential process; its statements that touch the      *)
(* file system, the network or the process status are the steps.           *)
(***************************************************************************)
EXTENDS Integers, Sequences, FiniteSets, TLC

(* ---- bounds ---- *)
MaxContent == 2
MaxClock == 2
MaxEnv == 2
MaxAttempts == 3
TicksPerSecond == 2
MaxBody == 2
MaxLen == 3
MaxInstalls == 2

Contents == 1..MaxContent
ForeignContent == MaxContent + 1
Ticks == 0..MaxClock

VARIABLES
  pc,            \* Script.py: position inside sync_configuration
  parentExists,  \* FLATPAK_CONFIG_DIR.parent exists
  config,        \* the directory tree at FLATPAK_CONFIG_DIR
  backupRoot,    \* BACKUP_DIR exists
  backups,       \* BACKUP_DIR/lyx_backup_<ts>: the trees moved there
  now,           \* datetime.datetime.now(), in clock ticks
  timestamp,     \* the local variable timestamp of sync_configuration
  remoteContent, \* head of GIT_REPO_URL
  ran,           \* effectful steps this run has performed
  runStart,      \* config when the current run started
  prevDone,      \* config left by the run that completed just before this one
  episode,       \* config when the first attempt of this series of runs started
  attempts,      \* runs started in this series
  envLeft,       \* changes the user / LyX may still make between runs
  host,          \* test.py: what get_lyx_user_directory can see of the machine
  resolved,      \* test.py: what get_lyx_user_directory returned
  script,        \* which script runs: test.py, or install.py's download call
  dpc,           \* position inside the script / inside the download function
  cur,           \* the asset being downloaded
  folder,        \* per asset: destination_folder exists
  file,          \* per asset: the bytes at full_path (Missing when there is none)
  prior,         \* per asset: what full_path held before the script ran
  content,       \* the local variable content / response.content
  outcome,       \* per asset: what the download function reported
  attempted,     \* assets the download function was called for
  exitStatus,    \* the exit status of the process (-1 while it runs)
  ppc,           \* install.py: position in the settings part of the main block
  preferences,   \* the text of <user dir>/preferences, token by token
  userBind,      \* the text of <user dir>/bind/user.bind
  bindDir,       \* <user dir>/bind exists
  installs       \* times the settings part has been entered

syncVars == <<pc, parentExists, config, backupRoot, backups, now, timestamp,
              remoteContent, ran, runStart, prevDone, episode, attempts, envLeft>>

resVars == <<host, resolved>>

dlVars == <<script, dpc, cur, folder, file, prior, content, outcome, attempted,
            exitStatus>>

patchVars == <<ppc, preferences, userBind, bindDir, installs>>

vars == <<syncVars, resVars, dlVars, patchVars>>

(* ---- directory trees ---- *)
Absent == [st |-> "absent", data |-> 0, origin |-> "none", local |-> 0]
PlainDir(x) == [st |-> "plain", data |-> x, origin |-> "none", local |-> 0]
GitTree(d, o, l) == [st |-> "git", data |-> d, origin |-> o, local |-> l]

Remotes == {"ours", "other"}
DirStates ==
  {Absent} \cup {PlainDir(x) : x \in Contents}
  \cup {GitTree(d, "ours", l) : d \in Contents, l \in 0..MaxContent}
  \cup {GitTree(ForeignContent, "other", l) : l \in 0..MaxContent}
NoTree == [st |-> "none", data |-> 0, origin |-> "none", local |-> 0]

(* ---- Script.py: the tests sync_configuration makes ---- *)
\* (FLATPAK_CONFIG_DIR / ".git").exists()
HasGit(c) == c.st = "git"

\* FLATPAK_CONFIG_DIR.exists()
ConfigExists(c) == c.st # "absent"

\* datetime.datetime.now().strftime("%Y%m%d_%H%M%S"): the clock cut to whole seconds
Strftime(t) == t \div TicksPerSecond

BackupNames == {Strftime(t) : t \in Ticks}

\* shutil.move(src, dst): a rename when dst is free; into dst/<basename(src)> when
\* dst is a directory that has no such entry; shutil.Error otherwise
MoveLands(b, name) == Len(b[name]) < 2

\* faulty variant: the old tree is removed instead of moved
RmtreeInsteadOfMove(b, name, tree) == b

ShutilMove(b, name, tree) == [b EXCEPT ![name] = Append(@, tree)]

\* the head of the remote a working tree tracks
RemoteHead(o) == IF o = "ours" THEN remoteContent ELSE ForeignContent

\* faulty variant: the pull follows another remote than the clone
PullWrongRemote(c) == [c EXCEPT !.data = ForeignContent]

\* git pull in the working tree: tracked files follow the remote, untracked stay
PullResult(c) == [c EXCEPT !.data = RemoteHead(c.origin)]

\* faulty variant: the clone takes another repository
CloneWrongUrl == GitTree(ForeignContent, "other", 0)

\* git clone GIT_REPO_URL FLATPAK_CONFIG_DIR
CloneResult == GitTree(remoteContent, "ours", 0)

\* git refuses to clone into an existing non-empty directory
CloneCanLand(c) == c.st = "absent"

\* faulty variant: existence is tested before .git, so a working tree is backed up too
BranchExistsFirst(c) == IF ConfigExists(c) THEN "backup" ELSE "clone"

\* the branch sync_configuration takes (if .git / else if exists / else)
Branch(c) == IF HasGit(c) THEN "pull" ELSE IF ConfigExists(c) THEN "backup" ELSE "clone"

Running == {"parent", "detect", "pull", "backup", "move", "clone"}
Stopped == {"idle", "done", "failed", "killed"}

Bump(n) == IF n < MaxAttempts THEN n + 1 ELSE n

\* where control goes when a statement raises: nothing in sync_configuration or main
\* catches it, so the process ends with a traceback
AfterMkdirError == "failed"
\* faulty variant: the failed move is swallowed and the clone goes ahead
AfterMoveErrorIgnored == "clone"

AfterMoveError == "failed"

\* run_command: CalledProcessError is caught, printed, and sys.exit(1) follows
AfterCommandError == "failed"

(* ---- Script.py: sync_configuration, statement by statement ---- *)
\* main() reaches sync_configuration (line 97)
StartRun ==
  /\ pc \in Stopped
  /\ pc' = "parent"
  /\ ran' = {}
  /\ runStart' = config
  /\ prevDone' = IF pc = "done" THEN config ELSE NoTree
  /\ episode' = IF pc \in {"failed", "killed"} THEN episode ELSE config
  /\ attempts' = IF pc \in {"failed", "killed"} THEN Bump(attempts) ELSE 1
  /\ UNCHANGED <<parentExists, config, backupRoot, backups, now, timestamp,
                 remoteContent, envLeft>>
  /\ UNCHANGED <<resVars, dlVars, patchVars>>

\* lines 62-64, the parent is there
ParentPresent ==
  /\ pc = "parent" /\ parentExists
  /\ pc' = "detect"
  /\ UNCHANGED <<parentExists, config, backupRoot, backups, now, timestamp,
                 remoteContent, ran, runStart, prevDone, episode, attempts, envLeft>>
  /\ UNCHANGED <<resVars, dlVars, patchVars>>

\* lines 62-64, mkdir(parents=True, exist_ok=True) succeeds
MkdirParent ==
  /\ pc = "parent" /\ ~parentExists
  /\ parentExists' = TRUE
  /\ ran' = ran \cup {"mkdir"}
  /\ pc' = "detect"
  /\ UNCHANGED <<config, backupRoot, backups, now, timestamp, remoteContent,
                 runStart, prevDone, episode, attempts, envLeft>>
  /\ UNCHANGED <<resVars, dlVars, patchVars>>

\* lines 62-64, mkdir raises OSError
MkdirParentFails ==
  /\ pc = "parent" /\ ~parentExists
  /\ pc' = AfterMkdirError
  /\ UNCHANGED <<parentExists, config, backupRoot, backups, now, timestamp,
                 remoteContent, ran, runStart, prevDone, episode, attempts, envLeft>>
  /\ UNCHANGED <<resVars, dlVars, patchVars>>

\* lines 67, 71, 72: which branch is taken
Detect ==
  /\ pc = "detect"
  /\ pc' = Branch(config)
  /\ UNCHANGED <<parentExists, config, backupRoot, backups, now, timestamp,
                 remoteContent, ran, runStart, prevDone, episode, attempts, envLeft>>
  /\ UNCHANGED <<resVars, dlVars, patchVars>>

\* lines 69-70, git pull exits 0
GitPull ==
  /\ pc = "pull"
  /\ config' = PullResult(config)
  /\ ran' = ran \cup {"pull"}
  /\ pc' = "done"
  /\ UNCHANGED <<parentExists, backupRoot, backups, now, timestamp, remoteContent,
                 runStart, prevDone, episode, attempts, envLeft>>
  /\ UNCHANGED <<resVars, dlVars, patchVars>>

\* lines 69-70 and 28-30, git pull exits non-zero
GitPullFails ==
  /\ pc = "pull"
  /\ ran' = ran \cup {"pull"}
  /\ pc' = AfterCommandError
  /\ UNCHANGED <<parentExists, config, backupRoot, backups, now, timestamp,
                 remoteContent, runStart, prevDone, episode, attempts, envLeft>>
  /\ UNCHANGED <<resVars, dlVars, patchVars>>

\* lines 73-76: the timestamp is taken, BACKUP_DIR.mkdir(exist_ok=True) succeeds
BackupMkdir ==
  /\ pc = "backup"
  /\ timestamp' = Strftime(now)
  /\ backupRoot' = TRUE
  /\ pc' = "move"
  /\ UNCHANGED <<parentExists, config, backups, now, remoteContent, ran, runStart,
                 prevDone, episode, attempts, envLeft>>
  /\ UNCHANGED <<resVars, dlVars, patchVars>>

\* lines 73-76: BACKUP_DIR is missing and mkdir raises OSError
BackupMkdirFails ==
  /\ pc = "backup" /\ ~backupRoot
  /\ timestamp' = Strftime(now)
  /\ pc' = AfterMkdirError
  /\ UNCHANGED <<parentExists, config, backupRoot, backups, now, remoteContent, ran,
                 runStart, prevDone, episode, attempts, envLeft>>
  /\ UNCHANGED <<resVars, dlVars, patchVars>>

\* line 77, shutil.move succeeds
Move ==
  /\ pc = "move"
  /\ MoveLands(backups, timestamp)
  /\ backups' = ShutilMove(backups, timestamp, config)
  /\ config' = Absent
  /\ ran' = ran \cup {"move"}
  /\ pc' = "clone"
  /\ UNCHANGED <<parentExists, backupRoot, now, timestamp, remoteContent, runStart,
                 prevDone, episode, attempts, envLeft>>
  /\ UNCHANGED <<resVars, dlVars, patchVars>>

\* line 77, shutil.move raises (permission denied, or the destination is taken)
MoveFails ==
  /\ pc = "move"
  /\ ran' = ran \cup {"movefailed"}
  /\ pc' = AfterMoveError
  /\ UNCHANGED <<parentExists, config, backupRoot, backups, now, timestamp,
                 remoteContent, runStart, prevDone, episode, attempts, envLeft>>
  /\ UNCHANGED <<resVars, dlVars, patchVars>>

\* line 80, git clone exits 0
GitClone ==
  /\ pc = "clone"
  /\ CloneCanLand(config)
  /\ config' = CloneResult
  /\ ran' = ran \cup {"clone"}
  /\ pc' = "done"
  /\ UNCHANGED <<parentExists, backupRoot, backups, now, timestamp, remoteContent,
                 runStart, prevDone, episode, attempts, envLeft>>
  /\ UNCHANGED <<resVars, dlVars, patchVars>>

\* lines 80 and 28-30, git clone exits non-zero and leaves nothing behind
GitCloneFails ==
  /\ pc = "clone"
  /\ ran' = ran \cup {"clone"}
  /\ pc' = AfterCommandError
  /\ UNCHANGED <<parentExists, config, backupRoot, backups, now, timestamp,
                 remoteContent, runStart, prevDone, episode, attempts, envLeft>>
  /\ UNCHANGED <<resVars, dlVars, patchVars>>

\* the process is killed between two statements
Interrupt ==
  /\ pc \in Running
  /\ pc' = "killed"
  /\ UNCHANGED <<parentExists, config, backupRoot, backups, now, timestamp,
                 remoteContent, ran, runStart, prevDone, episode, attempts, envLeft>>
  /\ UNCHANGED <<resVars, dlVars, patchVars>>

(* ---- the environment of Script.py ---- *)
\* time passes
Tick ==
  /\ now < MaxClock
  /\ now' = now + 1
  /\ UNCHANGED <<pc, parentExists, config, backupRoot, backups, timestamp,
                 remoteContent, ran, runStart, prevDone, episode, attempts, envLeft>>
  /\ UNCHANGED <<resVars, dlVars, patchVars>>

\* between runs LyX (or the user) creates its user directory afresh
UserCreatesConfig ==
  /\ pc \in Stopped
  /\ envLeft > 0
  /\ config.st = "absent"
  /\ \E x \in Contents : config' = PlainDir(x)
  /\ parentExists' = TRUE
  /\ envLeft' = envLeft - 1
  /\ pc' = "idle"
  /\ UNCHANGED <<backupRoot, backups, now, timestamp, remoteContent, ran, runStart,
                 prevDone, episode, attempts>>
  /\ UNCHANGED <<resVars, dlVars, patchVars>>
  /\ UNCHANGED <<resVars, dlVars, patchVars>>

SyncInit ==
  /\ pc = "idle"
  /\ config \in DirStates
  /\ parentExists \in {b \in BOOLEAN : ConfigExists(config) => b}
  /\ backupRoot \in BOOLEAN
  /\ backups = [n \in BackupNames |-> <<>>]
  /\ now = 0
  /\ timestamp = 0
  /\ remoteContent \in Contents
  /\ ran = {}
  /\ runStart = NoTree
  /\ prevDone = NoTree
  /\ episode = NoTree
  /\ attempts = 0
  /\ envLeft = MaxEnv

SyncNext ==
  \/ StartRun \/ ParentPresent \/ MkdirParent \/ MkdirParentFails \/ Detect
  \/ GitPull \/ GitPullFails \/ BackupMkdir \/ BackupMkdirFails \/ Move \/ MoveFails
  \/ GitClone \/ GitCloneFails \/ Interrupt \/ Tick \/ UserCreatesConfig

(* ---- claims about sync_configuration ---- *)
LastOf(q) == q[Len(q)]

\* C1: a run that found a plain directory holding X and whose move and clone both
\* succeeded leaves a backup directory under BACKUP_DIR holding exactly X, and the
\* config directory holds the fresh clone.
C1_BackupHoldsPrior ==
  (pc = "done" /\ "move" \in ran) =>
    /\ runStart.st = "plain"
    /\ Len(backups[timestamp]) > 0
    /\ LastOf(backups[timestamp]) = runStart
    /\ backupRoot
    /\ config = GitTree(remoteContent, "ours", 0)

C1_Witness ==
  /\ pc = "done" /\ "move" \in ran /\ "clone" \in ran
  /\ runStart = PlainDir(1)
  /\ backups[timestamp] = <<PlainDir(1)>>

\* C3: a run that completes right after a completed run, the remote unchanged,
\* leaves the config directory exactly as the first run left it.
C3_SecondRunSame ==
  (pc = "done" /\ prevDone # NoTree) => config = prevDone

C3_Witness ==
  /\ pc = "done" /\ prevDone # NoTree /\ config = prevDone
  /\ "pull" \in ran
  /\ \E n \in BackupNames : Len(backups[n]) > 0

\* the state a run is to reach from the tree c: the tracked files at the head of
\* the tree's remote (untracked ones kept), or a fresh clone when c is no git tree
Goal(c) ==
  IF c.st = "git"
    THEN GitTree(IF c.origin = "ours" THEN remoteContent ELSE ForeignContent,
                 c.origin, c.local)
    ELSE GitTree(remoteContent, "ours", 0)

\* C5: whenever a run completes, after any number of attempts that were killed or
\* failed after some of their steps, the config directory is what a single
\* uninterrupted run from the first attempt's starting tree reaches.
C5_RetryConverges ==
  pc = "done" => config = Goal(episode)

C5_Witness ==
  /\ pc = "done" /\ attempts >= 2
  /\ episode.st = "plain"
  /\ "move" \notin ran /\ "clone" \in ran
  /\ config = Goal(episode)

\* C6: once shutil.move has failed, the run performs no clone and the config
\* directory stays as the run found it.
C6_NoCloneAfterFailedMove ==
  "movefailed" \in ran =>
    /\ "clone" \notin ran
    /\ pc \notin {"clone", "done"}
    /\ config = runStart

C6_Witness ==
  /\ "movefailed" \in ran /\ pc = "failed"
  /\ config.st = "plain"

\* C11: a backup directory, once created, is never changed by a later run: no step
\* adds to it or alters what it holds, also when the next backup is made within the
\* same second.
C11_BackupsNeverChange ==
  [][\A n \in BackupNames : Len(backups[n]) > 0 => backups'[n] = backups[n]]_vars

\* C12 as stated: a run pulls only in a working tree of the configured remote; a
\* tree whose .git belongs to another remote is moved to a backup and cloned anew.
C12_PullOnlyOurRemote ==
  "pull" \in ran => runStart.origin = "ours"

\* C12 as amended: what a run does follows from the tree it finds alone. It pulls
\* exactly when the path holds a .git entry, whatever remote that tree follows; a
\* path that exists without .git is moved to a backup and then cloned; an absent
\* path is cloned with no backup made.
C12_ActionFollowsState ==
  /\ "pull" \in ran =>
       (runStart.st = "git" /\ ran \cap {"move", "movefailed", "clone"} = {})
  /\ (ran \cap {"move", "movefailed"} # {}) => runStart.st = "plain"
  /\ pc = "move" => runStart.st = "plain"
  /\ "clone" \in ran =>
       /\ runStart.st \in {"plain", "absent"}
       /\ runStart.st = "plain" <=> "move" \in ran
  /\ pc = "done" =>
       /\ runStart.st = "git" => (ran \ {"mkdir"} = {"pull"} /\ config = PullResult(runStart))
       /\ runStart.st = "plain" => (ran \ {"mkdir"} = {"move", "clone"})
       /\ runStart.st = "absent" => (ran \ {"mkdir"} = {"clone"})

C12_Witness ==
  /\ pc = "done" /\ "pull" \in ran
  /\ runStart.st = "git" /\ runStart.origin = "other"
  /\ config.origin = "other"

(* ---- test.py: get_lyx_user_directory ---- *)
Platforms == {"win32", "darwin", "linux"}

\* the entries a roaming-data or Application Support directory may list
EntryNames == {"Adobe", "LyX2.3", "LyX2.4", "Zotero"}

\* f.startswith("LyX")
StartsWithLyX(f) == f \in {"LyX2.3", "LyX2.4"}

\* the order sorted() puts the names in
NameRank(f) ==
  CASE f = "Adobe" -> 1 [] f = "LyX2.3" -> 2 [] f = "LyX2.4" -> 3 [] f = "Zotero" -> 4

\* sorted([f for f in contents if f.startswith("LyX")])[-1]
LatestLyX(contents) ==
  LET lyx == {f \in contents : StartsWithLyX(f)}
  IN CHOOSE f \in lyx : \A g \in lyx : NameRank(g) <= NameRank(f)

HasLyX(contents) == \E f \in contents : StartsWithLyX(f)

Hosts ==
  {h \in [flatpak : BOOLEAN, platform : Platforms, appdata : BOOLEAN,
          rootExists : BOOLEAN, entries : SUBSET EntryNames, homeLyx : BOOLEAN] :
     h.entries # {} => h.rootExists}

Path(root, leaf) == [kind |-> "path", root |-> root, leaf |-> leaf]
FlatpakPath == Path("flatpak", "lyx")
None == [kind |-> "none", root |-> "", leaf |-> ""]
Raised == [kind |-> "raise", root |-> "", leaf |-> ""]
Pending == [kind |-> "pending", root |-> "", leaf |-> ""]

\* lines 30-52: the platform branches
NativeDirectory(h) ==
  IF h.platform = "win32" THEN
    IF h.appdata THEN
      IF ~h.rootExists THEN Raised
      ELSE IF HasLyX(h.entries) THEN Path("appdata", LatestLyX(h.entries))
      ELSE Path("appdata", "LyX2.4")
    ELSE None
  ELSE IF h.platform = "darwin" THEN
    IF h.rootExists THEN
      IF HasLyX(h.entries) THEN Path("appsupport", LatestLyX(h.entries))
      ELSE Path("appsupport", "LyX-2.4")
    ELSE None
  ELSE Path("home", ".lyx")

\* faulty variant: the platform branches are tried before the Flatpak path
NativeBeforeFlatpak(h) ==
  IF NativeDirectory(h).kind = "path" THEN NativeDirectory(h)
  ELSE IF h.flatpak THEN FlatpakPath ELSE NativeDirectory(h)

\* lines 22-52
get_lyx_user_directory(h) ==
  IF h.flatpak THEN FlatpakPath ELSE NativeDirectory(h)

\* a call of get_lyx_user_directory on this machine
ResolveCall ==
  /\ resolved = Pending
  /\ resolved' = get_lyx_user_directory(host)
  /\ UNCHANGED <<host, syncVars, dlVars, patchVars>>

\* C10: whenever the Flatpak path exists the call returns it, on every platform and
\* whatever native LyX directories exist; a native path comes back only when the
\* Flatpak path is absent.
C10_FlatpakFirst ==
  resolved # Pending =>
    /\ host.flatpak => resolved = FlatpakPath
    /\ (resolved.kind = "path" /\ resolved.root # "flatpak") => ~host.flatpak

C10_Witness ==
  /\ resolved = FlatpakPath
  /\ host.platform = "win32" /\ host.appdata /\ "LyX2.4" \in host.entries

\* C13: on every machine the call returns a path or None; a missing directory
\* never makes it raise.
C13_NeverRaises ==
  resolved # Pending => resolved.kind \in {"path", "none"}

SyncIdle ==
  /\ pc = "off"
  /\ parentExists = FALSE
  /\ config = Absent
  /\ backupRoot = FALSE
  /\ backups = [n \in BackupNames |-> <<>>]
  /\ now = 0
  /\ timestamp = 0
  /\ remoteContent = 1
  /\ ran = {}
  /\ runStart = NoTree
  /\ prevDone = NoTree
  /\ episode = NoTree
  /\ attempts = 0
  /\ envLeft = 0

(* ---- test.py: the four-asset run; install.py: download_github_file ---- *)
\* 1 preferences, 2 bind/user.bind, 3 Macros/Macros_Standard.lyx,
\* 4 templates/Assignments.lyx (test.py lines 98-111); install.py line 254 makes
\* one call, for asset 1
Assets == 1..4
AssetsOf(sc) == IF sc = "test.py" THEN Assets ELSE {1}

File(b) == [there |-> TRUE, bytes |-> b]
Missing == [there |-> FALSE, bytes |-> <<>>]
\* a file an earlier installation left, different for each asset
Legacy(a) == File(<<0 - a>>)
\* the body the server sends
Body == [i \in 1..MaxBody |-> i]

\* is the directory the resolver returned on disk
OnDisk(h, r) ==
  IF r.root = "flatpak" THEN TRUE
  ELSE IF r.root = "home" THEN h.homeLyx
  ELSE r.leaf \in h.entries

\* what a destination may look like before the run: no folder, an empty folder,
\* a folder with an earlier file
DiskStates(a) == {<<FALSE, Missing>>, <<TRUE, Missing>>, <<TRUE, Legacy(a)>>}

Disks(as, rootThere) ==
  {d \in [as -> BOOLEAN \X {Missing, Legacy(1), Legacy(2), Legacy(3), Legacy(4)}] :
     /\ \A a \in as : d[a] \in DiskStates(a)
     /\ \A a \in as : d[a][1] => rootThere
     /\ rootThere => (1 \in as => d[1][1])}

\* open(full_path, 'wb'): the file is created or cut to nothing
OpenWb(f) == File(<<>>)

\* f.write(content) and the close, all bytes on disk
WriteAll(f, c) == File(c)

\* the write stops with an OSError after k bytes
WriteSome(c, k) == File(SubSeq(c, 1, k))

\* test.py: download_file swallows the error and returns; the next call of the
\* main block follows, and after the last one the script runs off its end.
\* install.py: download_github_file returns once
AfterAsset(sc, a) == IF sc = "test.py" /\ a < 4 THEN "call" ELSE "end"
NextAsset(sc, a) == IF sc = "test.py" /\ a < 4 THEN a + 1 ELSE a

\* faulty variant: the error is not caught and ends the script
FailureEndsScript(sc, a) == "crashed"

\* test.py lines 63-65, 75-76 (install.py 249-251): the error is caught and
\* printed, the function returns and the caller goes on
AfterFailure(sc, a) == AfterAsset(sc, a)

\* the status the process ends with when the script runs off its end
EndStatus == 0

ExitAfter(sc, a) == IF AfterAsset(sc, a) = "end" /\ sc = "test.py" THEN EndStatus ELSE -1

\* test.py line 84, get_lyx_user_directory raises (os.listdir of a missing folder)
ResolveRaises ==
  /\ dpc = "resolve"
  /\ \E h \in Hosts : get_lyx_user_directory(h) = Raised
  /\ resolved' = Raised
  /\ dpc' = "crashed"
  /\ exitStatus' = 1
  /\ UNCHANGED <<script, cur, folder, file, prior, content, outcome, attempted>>
  /\ UNCHANGED <<syncVars, host, patchVars>>

\* test.py lines 84-88, no directory: sys.exit(1)
ResolveNone ==
  /\ dpc = "resolve"
  /\ \E h \in Hosts : get_lyx_user_directory(h) = None
  /\ resolved' = None
  /\ dpc' = "exited"
  /\ exitStatus' = 1
  /\ UNCHANGED <<script, cur, folder, file, prior, content, outcome, attempted>>
  /\ UNCHANGED <<syncVars, host, patchVars>>

\* test.py line 84, a directory is returned; what is on disk below it shows
ResolvePath ==
  /\ dpc = "resolve"
  /\ \E h \in Hosts :
       LET r == get_lyx_user_directory(h) IN
       /\ r.kind = "path"
       /\ resolved' = r
       /\ \E d \in Disks(Assets, OnDisk(h, r)) :
            /\ folder' = [a \in Assets |-> d[a][1]]
            /\ file' = [a \in Assets |-> d[a][2]]
            /\ prior' = [a \in Assets |-> d[a][2]]
  /\ dpc' = "ensure"
  /\ UNCHANGED <<script, cur, content, outcome, attempted, exitStatus>>
  /\ UNCHANGED <<syncVars, host, patchVars>>

\* test.py lines 91-93, the user directory is there
UserDirPresent ==
  /\ dpc = "ensure" /\ folder[1]
  /\ dpc' = "call"
  /\ UNCHANGED <<script, cur, folder, file, prior, content, outcome, attempted,
                 exitStatus>>
  /\ UNCHANGED <<syncVars, resVars, patchVars>>

\* test.py lines 91-93, os.makedirs succeeds
MakeUserDir ==
  /\ dpc = "ensure" /\ ~folder[1]
  /\ folder' = [folder EXCEPT ![1] = TRUE]
  /\ dpc' = "call"
  /\ UNCHANGED <<script, cur, file, prior, content, outcome, attempted, exitStatus>>
  /\ UNCHANGED <<syncVars, resVars, patchVars>>

\* test.py lines 91-93, os.makedirs raises and nothing catches it
MakeUserDirFails ==
  /\ dpc = "ensure" /\ ~folder[1]
  /\ dpc' = "crashed"
  /\ exitStatus' = 1
  /\ UNCHANGED <<script, cur, folder, file, prior, content, outcome, attempted>>
  /\ UNCHANGED <<syncVars, resVars, patchVars>>

\* test.py lines 56-59, download_file is entered and the folder is there
FolderPresent ==
  /\ script = "test.py" /\ dpc = "call" /\ folder[cur]
  /\ attempted' = attempted \cup {cur}
  /\ dpc' = "urlopen"
  /\ UNCHANGED <<script, cur, folder, file, prior, content, outcome, exitStatus>>
  /\ UNCHANGED <<syncVars, resVars, patchVars>>

\* test.py lines 59-62, os.makedirs succeeds
MakeFolder ==
  /\ script = "test.py" /\ dpc = "call" /\ ~folder[cur]
  /\ attempted' = attempted \cup {cur}
  /\ folder' = [folder EXCEPT ![cur] = TRUE]
  /\ dpc' = "urlopen"
  /\ UNCHANGED <<script, cur, file, prior, content, outcome, exitStatus>>
  /\ UNCHANGED <<syncVars, resVars, patchVars>>

\* test.py lines 63-65, os.makedirs raises OSError: printed, return
MakeFolderFails ==
  /\ script = "test.py" /\ dpc = "call" /\ ~folder[cur]
  /\ attempted' = attempted \cup {cur}
  /\ outcome' = [outcome EXCEPT ![cur] = "mkdir_failed"]
  /\ dpc' = AfterFailure(script, cur)
  /\ cur' = NextAsset(script, cur)
  /\ exitStatus' = ExitAfter(script, cur)
  /\ UNCHANGED <<script, folder, file, prior, content>>
  /\ UNCHANGED <<syncVars, resVars, patchVars>>

\* test.py line 70, urlopen answers 2xx
Urlopen ==
  /\ dpc = "urlopen"
  /\ dpc' = "read"
  /\ UNCHANGED <<script, cur, folder, file, prior, content, outcome, attempted,
                 exitStatus>>
  /\ UNCHANGED <<syncVars, resVars, patchVars>>

\* test.py lines 70, 75-76: no connection or an HTTP error status
UrlopenFails ==
  /\ dpc = "urlopen"
  /\ outcome' = [outcome EXCEPT ![cur] = "fetch_failed"]
  /\ dpc' = AfterFailure(script, cur)
  /\ cur' = NextAsset(script, cur)
  /\ exitStatus' = ExitAfter(script, cur)
  /\ UNCHANGED <<script, folder, file, prior, content, attempted>>
  /\ UNCHANGED <<syncVars, resVars, patchVars>>

\* test.py line 71, response.read() returns the body
Read ==
  /\ dpc = "read"
  /\ content' = Body
  /\ dpc' = "open"
  /\ UNCHANGED <<script, cur, folder, file, prior, outcome, attempted, exitStatus>>
  /\ UNCHANGED <<syncVars, resVars, patchVars>>

\* test.py lines 71, 75-76: the connection breaks while the body is read
ReadFails ==
  /\ dpc = "read"
  /\ outcome' = [outcome EXCEPT ![cur] = "fetch_failed"]
  /\ dpc' = AfterFailure(script, cur)
  /\ cur' = NextAsset(script, cur)
  /\ exitStatus' = ExitAfter(script, cur)
  /\ UNCHANGED <<script, folder, file, prior, content, attempted>>
  /\ UNCHANGED <<syncVars, resVars, patchVars>>

\* test.py line 72 (install.py line 241), open(path, 'wb') succeeds
Open ==
  /\ dpc = "open"
  /\ file' = [file EXCEPT ![cur] = OpenWb(@)]
  /\ dpc' = "write"
  /\ UNCHANGED <<script, cur, folder, prior, content, outcome, attempted, exitStatus>>
  /\ UNCHANGED <<syncVars, resVars, patchVars>>

\* test.py lines 72, 75-76 (install.py 241-244), open raises
OpenFails ==
  /\ dpc = "open"
  /\ outcome' = [outcome EXCEPT ![cur] = "write_failed"]
  /\ dpc' = AfterFailure(script, cur)
  /\ cur' = NextAsset(script, cur)
  /\ exitStatus' = ExitAfter(script, cur)
  /\ UNCHANGED <<script, folder, file, prior, content, attempted>>
  /\ UNCHANGED <<syncVars, resVars, patchVars>>

\* test.py lines 73-74 (install.py 242, 246-247), the bytes are written
Write ==
  /\ dpc = "write"
  /\ file' = [file EXCEPT ![cur] = WriteAll(@, content)]
  /\ outcome' = [outcome EXCEPT ![cur] = "ok"]
  /\ dpc' = AfterAsset(script, cur)
  /\ cur' = NextAsset(script, cur)
  /\ exitStatus' = ExitAfter(script, cur)
  /\ UNCHANGED <<script, folder, prior, content, attempted>>
  /\ UNCHANGED <<syncVars, resVars, patchVars>>

\* test.py lines 73, 75-76 (install.py 242-244), the write raises part-way
WriteFails ==
  /\ dpc = "write"
  /\ \E k \in 0..(Len(content) - 1) :
       file' = [file EXCEPT ![cur] = WriteSome(content, k)]
  /\ outcome' = [outcome EXCEPT ![cur] = "write_failed"]
  /\ dpc' = AfterFailure(script, cur)
  /\ cur' = NextAsset(script, cur)
  /\ exitStatus' = ExitAfter(script, cur)
  /\ UNCHANGED <<script, folder, prior, content, attempted>>
  /\ UNCHANGED <<syncVars, resVars, patchVars>>

\* install.py lines 220-222, os.makedirs(folder_path, exist_ok=True) succeeds
GhMakedirs ==
  /\ script = "install.py" /\ dpc = "call"
  /\ attempted' = attempted \cup {cur}
  /\ folder' = [folder EXCEPT ![cur] = TRUE]
  /\ dpc' = "get"
  /\ UNCHANGED <<script, cur, file, prior, content, outcome, exitStatus>>
  /\ UNCHANGED <<syncVars, resVars, patchVars>>

\* install.py lines 223-224, 249-251: os.makedirs raises, return False
GhMakedirsFails ==
  /\ script = "install.py" /\ dpc = "call" /\ ~folder[cur]
  /\ attempted' = attempted \cup {cur}
  /\ outcome' = [outcome EXCEPT ![cur] = "mkdir_failed"]
  /\ dpc' = AfterFailure(script, cur)
  /\ UNCHANGED <<script, cur, folder, file, prior, content, exitStatus>>
  /\ UNCHANGED <<syncVars, resVars, patchVars>>

\* install.py lines 229-231, requests.get answers 2xx with the whole body
GhGet ==
  /\ dpc = "get"
  /\ content' = Body
  /\ dpc' = "open"
  /\ UNCHANGED <<script, cur, folder, file, prior, outcome, attempted, exitStatus>>
  /\ UNCHANGED <<syncVars, resVars, patchVars>>

\* install.py lines 232-237, 249-251: timeout, no connection or HTTP error
GhGetFails ==
  /\ dpc = "get"
  /\ outcome' = [outcome EXCEPT ![cur] = "fetch_failed"]
  /\ dpc' = AfterFailure(script, cur)
  /\ UNCHANGED <<script, cur, folder, file, prior, content, attempted, exitStatus>>
  /\ UNCHANGED <<syncVars, host, patchVars>>
  /\ UNCHANGED <<syncVars, resVars, patchVars>>

DlInit ==
  /\ script \in {"test.py", "install.py"}
  /\ cur = 1
  /\ content = <<>>
  /\ outcome = [a \in Assets |-> "pending"]
  /\ attempted = {}
  /\ exitStatus = -1
  /\ IF script = "test.py"
       THEN /\ dpc = "resolve"
            /\ folder = [a \in Assets |-> FALSE]
            /\ file = [a \in Assets |-> Missing]
            /\ prior = file
       ELSE /\ dpc = "call"
            /\ \E d \in DiskStates(1) :
                 /\ folder = [a \in Assets |-> IF a = 1 THEN d[1] ELSE FALSE]
                 /\ file = [a \in Assets |-> IF a = 1 THEN d[2] ELSE Missing]
            /\ prior = file

DlIdle ==
  /\ script = "none"
  /\ dpc = "off"
  /\ cur = 1
  /\ folder = [a \in Assets |-> FALSE]
  /\ file = [a \in Assets |-> Missing]
  /\ prior = file
  /\ content = <<>>
  /\ outcome = [a \in Assets |-> "pending"]
  /\ attempted = {}
  /\ exitStatus = -1

DlNext ==
  \/ ResolveRaises \/ ResolveNone \/ ResolvePath
  \/ UserDirPresent \/ MakeUserDir \/ MakeUserDirFails
  \/ FolderPresent \/ MakeFolder \/ MakeFolderFails
  \/ Urlopen \/ UrlopenFails \/ Read \/ ReadFails
  \/ Open \/ OpenFails \/ Write \/ WriteFails
  \/ GhMakedirs \/ GhMakedirsFails \/ GhGet \/ GhGetFails

(* ---- install.py: the settings part of the main block (lines 322-344) ---- *)
\* a text is a sequence of tokens: a directive with its arguments, or the newline
\* "pp:tl" is \path_prefix with texlive_binary_directory, "pp:old" with another value
TextTokens == {"pp:tl", "pp:old", "option", "NL"}

\* the block of lines 327-334 after .strip() + "\n"
PreferencesBlock ==
  <<"kbmap", "NL", "kbmap_primary", "NL", "kbmap_secondary", "NL",
    "visual_cursor", "NL", "pp:tl", "NL">>

\* the block of lines 340-343
BindBlock == <<"bind", "NL">>

\* open(path, "a") and write(block): the block goes after whatever is there
AppendMode(text, block) == text \o block

IsPathPrefix(t) == t \in {"pp:tl", "pp:old"}

RECURSIVE CountPathPrefix(_)
CountPathPrefix(text) ==
  IF text = <<>> THEN 0
  ELSE (IF IsPathPrefix(Head(text)) THEN 1 ELSE 0) + CountPathPrefix(Tail(text))

Texts == UNION {[1..n -> TextTokens] : n \in 0..MaxLen}

\* lines 322-335, the preferences block is appended
AppendPreferences ==
  /\ ppc = "prefs"
  /\ preferences' = AppendMode(preferences, PreferencesBlock)
  /\ ppc' = "bind"
  /\ UNCHANGED <<userBind, bindDir, installs>>
  /\ UNCHANGED <<syncVars, resVars, dlVars>>

\* lines 337-344, the bind line is appended
AppendBind ==
  /\ ppc = "bind" /\ bindDir
  /\ userBind' = AppendMode(userBind, BindBlock)
  /\ ppc' = "finished"
  /\ UNCHANGED <<preferences, bindDir, installs>>
  /\ UNCHANGED <<syncVars, resVars, dlVars>>

\* line 338, there is no bind folder: open raises FileNotFoundError
AppendBindFails ==
  /\ ppc = "bind" /\ ~bindDir
  /\ ppc' = "crashed"
  /\ UNCHANGED <<preferences, userBind, bindDir, installs>>
  /\ UNCHANGED <<syncVars, resVars, dlVars>>

\* the installer is run again
InstallAgain ==
  /\ ppc \in {"finished", "crashed"}
  /\ installs < MaxInstalls
  /\ installs' = installs + 1
  /\ ppc' = "prefs"
  /\ UNCHANGED <<preferences, userBind, bindDir>>
  /\ UNCHANGED <<syncVars, resVars, dlVars>>

\* between two runs the user creates the bind folder
UserMakesBindDir ==
  /\ ppc = "crashed" /\ ~bindDir
  /\ bindDir' = TRUE
  /\ UNCHANGED <<ppc, preferences, userBind, installs>>
  /\ UNCHANGED <<syncVars, resVars, dlVars>>

PatchInit ==
  /\ ppc = "prefs"
  /\ preferences \in Texts
  /\ bindDir \in BOOLEAN
  /\ userBind \in {t \in {<<>>, BindBlock} : t # <<>> => bindDir}
  /\ installs = 1

PatchIdle ==
  /\ ppc = "off"
  /\ preferences = <<>>
  /\ userBind = <<>>
  /\ bindDir = FALSE
  /\ installs = 0

PatchNext ==
  AppendPreferences \/ AppendBind \/ AppendBindFails \/ InstallAgain
  \/ UserMakesBindDir

\* C4: once the preferences step has run, the file holds exactly one \path_prefix
\* directive, whether or not it held one before and however often the step ran.
C4_OnePathPrefix ==
  (installs >= 1 /\ ppc \in {"bind", "finished", "crashed"}) =>
    CountPathPrefix(preferences) = 1

(* ---- claims about the download scripts ---- *)
Failed(a) == outcome[a] \in {"mkdir_failed", "fetch_failed", "write_failed"}

\* every file the scripts create or write
FilesOnDisk == {file[b] : b \in Assets}

\* C2: when a download succeeds over a file that was there before, the file holds
\* the fetched bytes and a copy of what it held before is kept somewhere.
C2_PriorArchived ==
  \A a \in Assets :
    (outcome[a] = "ok" /\ prior[a].there) =>
      (file[a] = File(Body) /\ prior[a] \in FilesOnDisk)

\* C7: after a download that failed, the destination file is as it was before or
\* holds the whole fetched body.
C7_NeverPartial ==
  \A a \in Assets : Failed(a) => (file[a] = prior[a] \/ file[a] = File(Body))

\* C8: in the four-asset run a failed asset does not end the run: the next asset
\* is the one called next, at the end all four have been attempted, and every
\* asset reported saved holds the fetched body.
C8_FailuresIsolated ==
  script = "test.py" =>
    /\ \A a \in Assets :
         (Failed(a) /\ a < 4) =>
           ((a + 1) \in attempted \/ (dpc = "call" /\ cur = a + 1))
    /\ (\E a \in Assets : Failed(a)) => dpc \notin {"crashed", "exited"}
    /\ dpc = "end" => attempted = Assets
    /\ \A a \in Assets : outcome[a] = "ok" => file[a] = File(Body)

C8_Witness ==
  /\ script = "test.py" /\ dpc = "end"
  /\ outcome[1] = "fetch_failed" /\ outcome[2] = "mkdir_failed"
  /\ outcome[3] = "write_failed" /\ outcome[4] = "ok"
  /\ file[4] = File(Body) /\ prior[4] = Missing

\* C9: the four-asset run ends with a non-zero exit status when an asset failed.
C9_ExitNonZeroOnFailure ==
  (script = "test.py" /\ dpc = "end" /\ \E a \in Assets : Failed(a)) =>
    exitStatus # 0

ResIdle ==
  /\ host = [flatpak |-> FALSE, platform |-> "linux", appdata |-> FALSE,
             rootExists |-> FALSE, entries |-> {}, homeLyx |-> FALSE]
  /\ resolved = None

(* ---- Script.py on its own ---- *)
InitSync == SyncInit /\ ResIdle /\ DlIdle /\ PatchIdle
NextSync == SyncNext
SpecSync == InitSync /\ [][NextSync]_vars

(* ---- get_lyx_user_directory over the machines it may run on ---- *)
InitResolve == SyncIdle /\ DlIdle /\ PatchIdle /\ host \in Hosts /\ resolved = Pending
NextResolve == ResolveCall
SpecResolve == InitResolve /\ [][NextResolve]_vars


(* ---- the download scripts on their own ---- *)
InitDownload == SyncIdle /\ DlInit /\ ResIdle /\ PatchIdle
NextDownload == DlNext
SpecDownload == InitDownload /\ [][NextDownload]_vars

(* ---- the settings part of install.py on its own ---- *)
InitPatch == SyncIdle /\ DlIdle /\ ResIdle /\ PatchInit
NextPatch == PatchNext
SpecPatch == InitPatch /\ [][NextPatch]_vars

====
